---- MODULE Spec2Model ----
(***************************************************************************)
(* Email case variation generator (src/app/email-case.jsx).                *)
(*                                                                         *)
(* The React component's state (email, qty, variations, useCustom,         *)
(* customIndexes) and its handlers (the onChange setters, generate, reset) *)
(* as a state machine.  The helpers letterPositions, flipCases and         *)
(* sampleUniqueBigInt are operators; the rejection loop of                 *)
(* sampleUniqueBigInt is taken one iteration at a time.                    *)
(*                                                                         *)
(* Representation:                                                         *)
(*   - a JavaScript string is a sequence of one-character strings;         *)
(*   - a BigInt (non-negative) is the set of its set bit indices, so that  *)
(*     2^53 and beyond are exact;                                          *)
(*   - a Number is a record: a fraction num/den, or NaN.                   *)
(***************************************************************************)
EXTENDS Integers, Sequences, FiniteSets, TLC

VARIABLES
  email,          \* useState: the address text
  qty,            \* useState: the requested quantity (a Number)
  variations,     \* useState: the list of generated strings
  useCustom,      \* useState: custom letter positions switch
  customIndexes,  \* useState: the custom index text
  pc,             \* "idle", or "sampling" while generate runs sampleUniqueBigInt
  set,            \* sampleUniqueBigInt's Set, in insertion order
  picks,          \* generate's local picks, for the call that set variations
  outcome,        \* what the last handler did: none | alertEmail | alertQty |
                  \* RangeError | sampling | done
  calls           \* history: the last two completed enumerating calls made in a
                  \* row, with nothing but the quantity changed between them

vars ==
  <<email, qty, variations, useCustom, customIndexes, pc, set, picks, outcome, calls>>

----------------------------------------------------------------------------
(* Bounds of the model *)

\* iterations of the rejection loop the model follows for one call
MaxDraws == 11
\* the largest small whole quantity typed into the quantity field
MaxQty == 3
\* letters in the long address
LongLen == 54

(* Program constants *)

\* Math.min(n, 5000)
SAFETY_CAP == 5000
\* max <= 100000n
ENUM_LIMIT == 100000
\* Number.MAX_SAFE_INTEGER = 2^53 - 1
SAFE_BITS == 53
\* BigInt.asUintN(64, ...)
UINT_BITS == 64

----------------------------------------------------------------------------
(* Characters and native case conversion *)

LowerAlpha ==
  <<"a","b","c","d","e","f","g","h","i","j","k","l","m",
    "n","o","p","q","r","s","t","u","v","w","x","y","z">>

UpperAlpha ==
  <<"A","B","C","D","E","F","G","H","I","J","K","L","M",
    "N","O","P","Q","R","S","T","U","V","W","X","Y","Z">>

IndexIn(ch, alpha) == CHOOSE i \in 1..Len(alpha) : alpha[i] = ch

IsLower(ch) == \E i \in 1..Len(LowerAlpha) : LowerAlpha[i] = ch
IsUpper(ch) == \E i \in 1..Len(UpperAlpha) : UpperAlpha[i] = ch

\* (ch >= "A" && ch <= "Z") || (ch >= "a" && ch <= "z")
IsAsciiLetter(ch) == IsUpper(ch) \/ IsLower(ch)

\* String.prototype.toUpperCase on one character: a string, since the sharp s
\* has the two-letter upper case "SS"
CharUpper(ch) ==
  IF IsLower(ch) THEN <<UpperAlpha[IndexIn(ch, LowerAlpha)]>>
  ELSE IF ch = "ß" THEN <<"S", "S">>
  ELSE <<ch>>

\* String.prototype.toLowerCase on one character
CharLower(ch) ==
  IF IsUpper(ch) THEN <<LowerAlpha[IndexIn(ch, UpperAlpha)]>>
  ELSE <<ch>>

RECURSIVE toUpperCase(_)
toUpperCase(s) ==
  IF s = <<>> THEN <<>> ELSE CharUpper(Head(s)) \o toUpperCase(Tail(s))

RECURSIVE toLowerCase(_)
toLowerCase(s) ==
  IF s = <<>> THEN <<>> ELSE CharLower(Head(s)) \o toLowerCase(Tail(s))

\* ch === ch.toUpperCase() ? ch.toLowerCase() : ch.toUpperCase()
ToggleCase(ch) ==
  IF ch = toUpperCase(ch) THEN toLowerCase(ch) ELSE toUpperCase(ch)

----------------------------------------------------------------------------
(* BigInt arithmetic on bit sets *)

SetMax(S) == CHOOSE x \in S : \A y \in S : y <= x

RECURSIVE BigFromNat(_)
\* BigInt(i) for a whole number i >= 0
BigFromNat(i) ==
  IF i = 0 THEN {}
  ELSE {b + 1 : b \in BigFromNat(i \div 2)} \cup (IF i % 2 = 1 THEN {0} ELSE {})

RECURSIVE BigToNat(_)
\* Number(x) for a BigInt small enough to be exact
BigToNat(x) ==
  IF x = {} THEN 0
  ELSE LET b == SetMax(x) IN 2^b + BigToNat(x \ {b})

\* a < b
BigLT(a, b) ==
  LET d == (a \ b) \cup (b \ a) IN d # {} /\ SetMax(d) \in b

\* a <= b
BigLE(a, b) == a = b \/ BigLT(a, b)

\* 1n << BigInt(n)
BigPow2(n) == {n}

\* (x >> b) & 1n
BigBit(x, b) == IF b \in x THEN 1 ELSE 0

\* BigInt.asUintN(w, x)
BigAsUintN(w, x) == {b \in x : b < w}

\* x % m for a modulus that is a power of two, which totalPossible always is
BigMod(x, m) == LET n == CHOOSE e \in m : TRUE IN {b \in x : b < n}

----------------------------------------------------------------------------
(* Numbers *)

Num(n) == [kind |-> "num", num |-> n, den |-> 1]
Half(n) == [kind |-> "num", num |-> n, den |-> 2]
NaN == [kind |-> "NaN", num |-> 0, den |-> 1]

\* Number.isFinite
NumIsFinite(x) == x.kind = "num"

\* Number.isInteger
NumIsInteger(x) == x.kind = "num" /\ x.num % x.den = 0

\* x <= 0, false for NaN
NumLEZero(x) == x.kind = "num" /\ x.num <= 0

\* Math.min(x, c) for a finite x and a whole c
MathMin(x, c) == IF x.num > c * x.den THEN Num(c) ELSE x

----------------------------------------------------------------------------
(* Helpers of the component *)

\* EMAIL_REGEX = /.+@.+\..+/ tested unanchored: some "@" with a character
\* before it, some later "." with a character between them and one after
EMAIL_REGEX_test(s) ==
  \E i, j \in 1..Len(s) :
    /\ s[i] = "@" /\ s[j] = "."
    /\ 1 < i /\ i + 1 < j /\ j < Len(s)

\* the 0-based indices of the ASCII letters of str, ascending
letterPositions(str) ==
  LET IsLetterAt(i) == IsAsciiLetter(str[i + 1])
  IN SelectSeq([k \in 1..Len(str) |-> k - 1], IsLetterAt)

RECURSIVE joinRange(_, _, _)
\* the concatenation of arr[lo..hi], by halves
joinRange(arr, lo, hi) ==
  IF lo > hi THEN <<>>
  ELSE IF lo = hi THEN arr[lo]
  ELSE LET mid == (lo + hi) \div 2
       IN joinRange(arr, lo, mid) \o joinRange(arr, mid + 1, hi)

\* arr.join("")
join(arr) == joinRange(arr, 1, Len(arr))

\* a faulty turn, for comparison with flipBit: the bits are read from the far
\* end of positions
flipBitFromEnd(arr, positions, mask, b) ==
  IF BigBit(mask, b) = 1
  THEN LET idx == positions[Len(positions) - b]
       IN [arr EXCEPT ![idx + 1] = ToggleCase(arr[idx + 1])]
  ELSE arr

\* one turn of flipCases' loop, for bit index b
flipBit(arr, positions, mask, b) ==
  IF BigBit(mask, b) = 1
  THEN LET idx == positions[b + 1]
       IN [arr EXCEPT ![idx + 1] = ToggleCase(arr[idx + 1])]
  ELSE arr

RECURSIVE flipLoop(_, _, _, _, _)
\* the turns of flipCases' loop for the bit indexes lo..hi, in order: the
\* turns of the lower half, then those of the upper half on what they left
flipLoop(arr, positions, mask, lo, hi) ==
  IF lo > hi THEN arr
  ELSE IF lo = hi THEN flipBit(arr, positions, mask, lo)
  ELSE LET mid == (lo + hi) \div 2
       IN CHOOSE out \in { flipLoop(left, positions, mask, mid + 1, hi) :
                             left \in { flipLoop(arr, positions, mask, lo, mid) } } : TRUE

\* flipCases(base, positions, mask): base.split("") is the list of the
\* one-character strings of base; the arguments are taken by value
flipCases(base, positions, mask) ==
  CHOOSE out \in { join(arr) :
                     arr \in { flipLoop([i \in 1..Len(str) |-> <<str[i]>>], pos, m, 0, Len(pos) - 1) :
                                str \in {base}, pos \in {positions}, m \in {mask} } } : TRUE

----------------------------------------------------------------------------
(* Parsing the custom index text *)

IsSeparator(ch) == ch = " " \/ ch = ","

RECURSIVE splitFrom(_, _, _)
splitFrom(s, cur, inSep) ==
  IF s = <<>> THEN <<cur>>
  ELSE IF IsSeparator(Head(s))
       THEN IF inSep THEN splitFrom(Tail(s), cur, TRUE)
            ELSE <<cur>> \o splitFrom(Tail(s), <<>>, TRUE)
       ELSE splitFrom(Tail(s), Append(cur, Head(s)), FALSE)

\* s.split(/[ ,]+/)
split(s) == splitFrom(s, <<>>, FALSE)

RECURSIVE trimStart(_)
trimStart(s) == IF s # <<>> /\ Head(s) = " " THEN trimStart(Tail(s)) ELSE s

RECURSIVE trimEnd(_)
trimEnd(s) ==
  IF s # <<>> /\ s[Len(s)] = " " THEN trimEnd(SubSeq(s, 1, Len(s) - 1)) ELSE s

\* s.trim()
trim(s) == trimEnd(trimStart(s))

Digits == <<"0","1","2","3","4","5","6","7","8","9">>

IsDigit(ch) == \E i \in 1..Len(Digits) : Digits[i] = ch

RECURSIVE digitsValue(_)
digitsValue(s) ==
  IF s = <<>> THEN 0
  ELSE 10 * digitsValue(SubSeq(s, 1, Len(s) - 1)) + (IndexIn(s[Len(s)], Digits) - 1)

AllDigits(s) == s # <<>> /\ \A i \in 1..Len(s) : IsDigit(s[i])

\* Number(s) for a text of digits, signs and other non-blank characters
\* without ".", "e", "x", "o", "b", "I", "_": an optionally signed decimal
\* integer, else NaN.  "-0" is the integer 0 in every use the program makes.
ToNumber(s) ==
  IF s = <<>> THEN Num(0)
  ELSE IF AllDigits(s) THEN Num(digitsValue(s))
  ELSE IF Head(s) = "-" /\ AllDigits(Tail(s)) THEN Num(0 - digitsValue(Tail(s)))
  ELSE IF Head(s) = "+" /\ AllDigits(Tail(s)) THEN Num(digitsValue(Tail(s)))
  ELSE NaN

NonEmpty(s) == s # <<>>

\* customIndexes.split(/[ ,]+/).map(trim).filter(Boolean).map(Number)
parsedNumbers(text) ==
  LET pieces == split(text)
      trimmed == [i \in 1..Len(pieces) |-> trim(pieces[i])]
      kept == SelectSeq(trimmed, NonEmpty)
  IN [i \in 1..Len(kept) |-> ToNumber(kept[i])]

\* the last filter of customPositions and its fallback
customParts(text, len) ==
  LET InRange(n) == NumIsInteger(n) /\ n.num >= 0 /\ n.num < len
      parts == SelectSeq(parsedNumbers(text), InRange)
  IN [i \in 1..Len(parts) |-> parts[i].num]

\* a faulty customPositions, for comparison with customPositionsOf: no
\* fallback to the letters when no index is valid
customPositionsNoFallback(mail, custom, text) ==
  IF ~custom THEN letterPositions(mail) ELSE customParts(text, Len(mail))

\* useMemo customPositions
customPositionsOf(mail, custom, text) ==
  IF ~custom THEN letterPositions(mail)
  ELSE LET parts == customParts(text, Len(mail))
       IN IF Len(parts) # 0 THEN parts ELSE letterPositions(mail)

allLetterPositions == letterPositions(email)
customPositions == customPositionsOf(email, useCustom, customIndexes)
lettersCount == Len(customPositions)

\* 1n << BigInt(lettersCount)
totalPossible == BigPow2(lettersCount)

----------------------------------------------------------------------------
(* generate's locals *)

\* BigInt(Math.min(n, 5000)), defined when the minimum is a whole number
wantOf(q) == BigFromNat(MathMin(q, SAFETY_CAP).num \div MathMin(q, SAFETY_CAP).den)

\* BigInt() throws a RangeError on a Number that is not an integer
wantThrows(q) == ~NumIsInteger(MathMin(q, SAFETY_CAP))

\* a faulty branch test, for comparison with enumerates: every space is
\* sampled
enumeratesNever(max) == BigLT(max, BigFromNat(0))

\* max <= 100000n
enumerates(max) == BigLE(max, BigFromNat(ENUM_LIMIT))

\* a faulty upto, for comparison with uptoOf: want is not capped at max
uptoUncapped(max, want) == BigToNat(want)

\* Number(max < want ? max : want)
uptoOf(max, want) == BigToNat(IF BigLT(max, want) THEN max ELSE want)

\* a faulty enumeration, for comparison with enumPicks: the masks descend
enumPicksDescending(upto) == [i \in 1..upto |-> BigFromNat(upto - i)]

\* Array.from({ length: upto }, (_, i) => BigInt(i))
enumPicks(upto) == [i \in 1..upto |-> BigFromNat(i - 1)]

\* picks.map((mask) => flipCases(base, pos, mask))
render(base, pos, masks) == [i \in 1..Len(masks) |-> flipCases(base, pos, masks[i])]

Elems(s) == {s[i] : i \in 1..Len(s)}

\* Math.floor(Math.random() * Number.MAX_SAFE_INTEGER): a whole number in
\* [0, 2^53 - 1)
IsRandValue(r) == r \subseteq 0..(SAFE_BITS - 1) /\ r # 0..(SAFE_BITS - 1)

\* The largest value of the draw, 2^53 - 2
RandMax == (0..(SAFE_BITS - 1)) \ {0}

\* the least whole number that is not yet a member of the Set
NextUnused(s) ==
  CHOOSE j \in 0..Len(s) :
    /\ BigFromNat(j) \notin Elems(s)
    /\ \A i \in 0..(j - 1) : BigFromNat(i) \in Elems(s)

\* The draws followed from a Set s: every small value up to the least unused
\* one (a repeat, or a new member) and the largest value of the draw.
RandChoices(s) == {BigFromNat(j) : j \in 0..NextUnused(s)} \cup {RandMax}

\* const rand = BigInt.asUintN(64, BigInt(...)); const pick = rand % maxExclusive
pickOf(r, maxExclusive) == BigMod(BigAsUintN(UINT_BITS, r), maxExclusive)

\* a faulty add, for comparison with setAdd: an array push, members repeated
setAddPush(s, pick) == Append(s, pick)

\* set.add(pick): a Set keeps insertion order and ignores a member
setAdd(s, pick) == IF pick \in Elems(s) THEN s ELSE Append(s, pick)

----------------------------------------------------------------------------
(* Inputs *)

DefaultEmail ==
  <<"m","o","n","d","a","y","n","i","g","h","t","b","e","f","o","r","e","@","g","m","a","i","l",".","c","o","m">>

LongEmail == [i \in 1..LongLen |-> "a"] \o <<"@","1",".","2">>

\* addresses typed into the address field: no "@", one letter, two letters,
\* no letter, and one with a sharp s
EmailInputs ==
  { <<"a">>,
    <<"a","@","1",".","2">>,
    <<"a","b","@","1",".","2">>,
    <<"1","@","2",".","3">>,
    <<"B","ß","@","1",".","2">> }

\* quantities: not a number, negative, zero, small whole ones, 2.5, 10, 5000.5
QtyInputs ==
  {NaN} \cup {Num(k) : k \in (0 - 1)..MaxQty}
    \cup {Half(5), Num(10), Half(2 * SAFETY_CAP + 1)}

\* custom index texts: empty, out of order, a repeat, blanks and a comma with
\* an index of a non-letter, nothing valid for a short address
CustomInputs ==
  { <<>>,
    <<"1"," ","0">>,
    <<"0",",","0">>,
    <<" ","2",","," ","1">>,
    <<"9"," ","-","1"," ","a">> }

\* the inputs of the runs that follow sampleUniqueBigInt on a long address:
\* the address of 54 letters and one without "@", whole quantities and 2.5,
\* and the custom text that leaves two positions
SampleEmailInputs == { LongEmail, <<"a">> }
SampleQtyInputs == {Num(k) : k \in 0..MaxQty} \cup {Half(5)}
SampleCustomInputs == { <<"1"," ","0">> }

----------------------------------------------------------------------------
(* The state machine *)

Init ==
  /\ email = DefaultEmail
  /\ qty = Num(10)
  /\ variations = <<>>
  /\ useCustom = FALSE
  /\ customIndexes = <<>>
  /\ pc = "idle"
  /\ set = <<>>
  /\ picks = <<>>
  /\ outcome = "none"
  /\ calls = <<>>

\* onChange={(e) => setEmail(e.target.value)}
setEmail(e) ==
  /\ pc = "idle"
  /\ email' = e
  /\ outcome' = "none"
  /\ calls' = <<>>
  /\ UNCHANGED <<qty, variations, useCustom, customIndexes, pc, set, picks>>

\* onChange={(e) => setQty(Number(e.target.value))}
setQty(q) ==
  /\ pc = "idle"
  /\ qty' = q
  /\ outcome' = "none"
  /\ UNCHANGED <<email, variations, useCustom, customIndexes, pc, set, picks, calls>>

\* onCheckedChange={setUseCustom}
setUseCustom(b) ==
  /\ pc = "idle"
  /\ useCustom' = b
  /\ outcome' = "none"
  /\ calls' = <<>>
  /\ UNCHANGED <<email, qty, variations, customIndexes, pc, set, picks>>

\* onChange={(e) => setCustomIndexes(e.target.value)}, shown when useCustom
setCustomIndexes(t) ==
  /\ pc = "idle"
  /\ useCustom
  /\ customIndexes' = t
  /\ outcome' = "none"
  /\ calls' = <<>>
  /\ UNCHANGED <<email, qty, variations, useCustom, pc, set, picks>>

\* const reset = () => setVariations([])
reset ==
  /\ pc = "idle"
  /\ variations' = <<>>
  /\ picks' = <<>>
  /\ outcome' = "none"
  /\ calls' = <<>>
  /\ UNCHANGED <<email, qty, useCustom, customIndexes, pc, set>>

\* generate: the address fails EMAIL_REGEX
generateInvalidEmail ==
  /\ pc = "idle"
  /\ ~EMAIL_REGEX_test(email)
  /\ outcome' = "alertEmail"
  /\ UNCHANGED <<email, qty, variations, useCustom, customIndexes, pc, set, picks, calls>>

\* !Number.isFinite(n) || n <= 0
qtyRejected(q) == ~NumIsFinite(q) \/ NumLEZero(q)

\* generate: the quantity check fails
generateInvalidQty ==
  /\ pc = "idle"
  /\ EMAIL_REGEX_test(email)
  /\ qtyRejected(qty)
  /\ outcome' = "alertQty"
  /\ UNCHANGED <<email, qty, variations, useCustom, customIndexes, pc, set, picks, calls>>

\* generate: BigInt(Math.min(n, 5000)) throws
generateThrows ==
  /\ pc = "idle"
  /\ EMAIL_REGEX_test(email)
  /\ ~qtyRejected(qty)
  /\ wantThrows(qty)
  /\ outcome' = "RangeError"
  /\ UNCHANGED <<email, qty, variations, useCustom, customIndexes, pc, set, picks, calls>>

generateAccepts ==
  /\ pc = "idle"
  /\ EMAIL_REGEX_test(email)
  /\ ~qtyRejected(qty)
  /\ ~wantThrows(qty)

\* Number(want), sampleUniqueBigInt's k
sampleK == BigToNat(wantOf(qty))

\* history: a completed call with its want and its out, the last two kept
recordCall(h, want, out) ==
  LET all == Append(h, [want |-> want, out |-> out])
  IN IF Len(all) > 2 THEN Tail(all) ELSE all

\* generate: the enumeration branch, to setVariations(out)
generateEnumerate ==
  /\ generateAccepts
  /\ enumerates(totalPossible)
  /\ picks' = enumPicks(uptoOf(totalPossible, wantOf(qty)))
  /\ variations' = render(email, customPositions, picks')
  /\ outcome' = "done"
  /\ calls' = recordCall(calls, sampleK, variations')
  /\ UNCHANGED <<email, qty, useCustom, customIndexes, pc, set>>

\* generate: the sampling branch enters sampleUniqueBigInt(max, Number(want))
generateSample ==
  /\ generateAccepts
  /\ ~enumerates(totalPossible)
  /\ pc' = "sampling"
  /\ set' = <<>>
  /\ outcome' = "sampling"
  /\ UNCHANGED <<email, qty, variations, useCustom, customIndexes, picks, calls>>

\* one turn of while (set.size < k)
sampleDraw ==
  /\ pc = "sampling"
  /\ Len(set) < sampleK
  /\ Len(set) < MaxDraws
  /\ \E rand \in RandChoices(set) :
       set' = setAdd(set, pickOf(rand, totalPossible))
  /\ UNCHANGED <<email, qty, variations, useCustom, customIndexes, pc, picks, outcome, calls>>

\* return Array.from(set), then generate's map and setVariations(out)
sampleReturn ==
  /\ pc = "sampling"
  /\ ~(Len(set) < sampleK)
  /\ picks' = set
  /\ variations' = render(email, customPositions, picks')
  /\ pc' = "idle"
  /\ set' = <<>>
  /\ outcome' = "done"
  /\ calls' = <<>>
  /\ UNCHANGED <<email, qty, useCustom, customIndexes>>

generate ==
  \/ generateInvalidEmail
  \/ generateInvalidQty
  \/ generateThrows
  \/ generateEnumerate
  \/ generateSample

NextOver(E, Q, T) ==
  \/ \E e \in E : setEmail(e)
  \/ \E q \in Q : setQty(q)
  \/ \E b \in BOOLEAN : setUseCustom(b)
  \/ \E t \in T : setCustomIndexes(t)
  \/ reset
  \/ generate
  \/ sampleDraw
  \/ sampleReturn

Next == NextOver(EmailInputs, QtyInputs, CustomInputs)

SampleNext == NextOver(SampleEmailInputs, SampleQtyInputs, SampleCustomInputs)

Spec == Init /\ [][Next]_vars

SampleSpec == Init /\ [][SampleNext]_vars

\* a turn of the loop whose draw is a new member
sampleDrawNew == sampleDraw /\ set' # set

\* The handler runs on: the loop keeps turning, Math.random keeps producing
\* values that are not yet members, and the return is taken.
LiveSpec ==
  SampleSpec /\ WF_vars(sampleDrawNew) /\ WF_vars(sampleReturn)

----------------------------------------------------------------------------
(* Properties *)

\* a generate call has just completed: the inputs are those of the call
Completed == pc = "idle" /\ outcome = "done"

\* min(requested quantity, 5000) of an accepted request
wantCount ==
  IF qty.num >= SAFETY_CAP * qty.den THEN SAFETY_CAP ELSE qty.num \div qty.den

\* wantCount <= spaceSize
WantFits == BigLE(BigFromNat(wantCount), totalPossible)

Distinct(s) == \A i, j \in 1..Len(s) : i # j => s[i] # s[j]

IsPrefix(s, t) == Len(s) <= Len(t) /\ \A i \in 1..Len(s) : s[i] = t[i]

\* C1: after an accepted generate call the mask list holds pairwise distinct
\* masks, each below spaceSize = 2^(active positions), and has exactly
\* min(wantCount, spaceSize) elements, in enumeration and in sampling mode.
C1_MaskList ==
  Completed =>
    /\ Distinct(picks)
    /\ \A i \in 1..Len(picks) : BigLT(picks[i], totalPossible)
    /\ IF WantFits THEN Len(picks) = wantCount
       ELSE BigFromNat(Len(picks)) = totalPossible

\* C1 witness: a sampling call has returned ten masks, one of them a draw
\* that the modulus reduced
C1_Witness ==
  /\ Completed
  /\ ~enumerates(totalPossible)
  /\ Len(picks) = 10
  /\ pickOf(RandMax, totalPossible) # RandMax
  /\ pickOf(RandMax, totalPossible) \in Elems(picks)

\* C2 (as claimed): whenever wantCount <= spaceSize the returned variations
\* are pairwise distinct, for every active position list.
C2_VariationsDistinct == (Completed /\ WantFits) => Distinct(variations)

\* C3 (as claimed): every variation has the length of the source and equals
\* the source at every index outside activePositions.
C3_FrameOnly ==
  Completed =>
    \A k \in 1..Len(variations) :
      IF Len(variations[k]) # Len(email) THEN FALSE
      ELSE \A i \in 0..(Len(email) - 1) :
             i \notin Elems(customPositions) => variations[k][i + 1] = email[i + 1]

RECURSIVE ToggleTimes(_, _)
ToggleTimes(ch, c) == IF c = 0 THEN ch ELSE ToggleTimes(ToggleCase(ch), c - 1)

\* the bit indices set in mask that select index i
BitsAt(positions, mask, i) ==
  {b \in 0..(Len(positions) - 1) : b \in mask /\ positions[b + 1] = i}

\* the rendering claimed for a mask: the character at index i toggled once
\* for each set bit b with positions[b] = i, every other character kept
ExpectedFlip(base, positions, mask) ==
  join([k \in 1..Len(base) |->
          ToggleTimes(<<base[k]>>, Cardinality(BitsAt(positions, mask, k - 1)))])

\* C4: each variation is the source with the character at activePositions[b]
\* toggled exactly for the bit indices b set in its mask (least significant
\* bit first) and every other character unchanged.
C4_FlipByBits ==
  Completed =>
    \A k \in 1..Len(variations) :
      variations[k] = ExpectedFlip(email, customPositions, picks[k])

\* C4 witness: "ab" with positions [0,1] renders masks 0,1,2,3 to ab, Ab, aB, AB
C4_Witness ==
  /\ Completed
  /\ email = <<"a","b","@","1",".","2">>
  /\ customPositions = <<0, 1>>
  /\ picks = <<{}, {0}, {1}, {0, 1}>>
  /\ variations = << <<"a","b","@","1",".","2">>,
                     <<"A","b","@","1",".","2">>,
                     <<"a","B","@","1",".","2">>,
                     <<"A","B","@","1",".","2">> >>

\* C5: in enumeration mode, of two calls on the same source and positions
\* the one with the smaller wantCount returns a prefix of the other's list.
C5_EnumPrefix ==
  (Len(calls) = 2 /\ enumerates(totalPossible)) =>
    /\ calls[1].want < calls[2].want => IsPrefix(calls[1].out, calls[2].out)
    /\ calls[2].want < calls[1].want => IsPrefix(calls[2].out, calls[1].out)

\* C5 witness: a call for 2 then a call for 3 on a space of 4, the first list
\* a proper prefix of the second
C5_Witness ==
  /\ Len(calls) = 2
  /\ lettersCount = 2
  /\ calls[1].want = 2 /\ Len(calls[1].out) = 2
  /\ calls[2].want = 3 /\ Len(calls[2].out) = 3
  /\ variations = calls[2].out

\* the quantity is a positive finite integer
QtyIsPositiveInteger == NumIsInteger(qty) /\ qty.num > 0

\* C6 (as claimed): a generate call on a valid address whose quantity is not a
\* positive finite integer ends in the quantity validation error, before any
\* generation work.
C6_InvalidQtyRejected ==
  (outcome \notin {"none", "alertEmail"} /\ ~QtyIsPositiveInteger)
    => outcome = "alertQty"

\* what Number makes of the tokens of each custom index text
ExpectedNumbers(text) ==
  CASE text = <<>> -> <<>>
    [] text = <<"1"," ","0">> -> <<Num(1), Num(0)>>
    [] text = <<"0",",","0">> -> <<Num(0), Num(0)>>
    [] text = <<" ","2",","," ","1">> -> <<Num(2), Num(1)>>
    [] text = <<"9"," ","-","1"," ","a">> -> <<Num(9), Num(0 - 1), NaN>>

\* the indices of the ASCII letters, ascending
ExpectedLetters(str) ==
  LET at == {i \in 0..(Len(str) - 1) :
               str[i + 1] \in Elems(LowerAlpha) \cup Elems(UpperAlpha)}
      RECURSIVE Ascending(_)
      Ascending(S) ==
        IF S = {} THEN <<>>
        ELSE LET m == CHOOSE x \in S : \A y \in S : x <= y
             IN <<m>> \o Ascending(S \ {m})
  IN Ascending(at)

\* C7: with the custom mode on, activePositions is the parsed indices that are
\* integers in [0, len(source)), in input order with repeats kept, or
\* allPositions when none is valid; with the mode off it is allPositions.
C7_ActivePositions ==
  LET InRange(n) == n.kind = "num" /\ n.den = 1 /\ 0 <= n.num /\ n.num < Len(email)
      valid == SelectSeq(ExpectedNumbers(customIndexes), InRange)
  IN customPositions =
       IF useCustom /\ valid # <<>>
       THEN [i \in 1..Len(valid) |-> valid[i].num]
       ELSE ExpectedLetters(email)

\* C7 witness: no index of the text is valid and the letters are used
C7_Witness ==
  /\ useCustom
  /\ customIndexes = <<"9"," ","-","1"," ","a">>
  /\ email = <<"a","b","@","1",".","2">>
  /\ customPositions = <<0, 1>>
  /\ Completed
  /\ Len(variations) = 3

\* C8 (as claimed): one active position, wantCount 10: exactly 1 variation.
C8_OneVariation ==
  (Completed /\ lettersCount = 1 /\ wantCount = 10) => Len(variations) = 1

\* C8 (amended): one active position, wantCount 10: exactly 2 variations, the
\* whole space.
C8_TwoVariations ==
  (Completed /\ lettersCount = 1 /\ wantCount = 10)
    => /\ Len(variations) = 2
       /\ variations[1] = email
       /\ variations[2] # email

\* C8 witness: the one-letter address, ten wanted, both members returned
C8_Witness ==
  /\ Completed
  /\ email = <<"a","@","1",".","2">>
  /\ ~useCustom
  /\ qty = Num(10)
  /\ variations = << <<"a","@","1",".","2">>, <<"A","@","1",".","2">> >>

\* C9: sampleUniqueBigInt is only entered with k below maxExclusive, and under
\* fair draws every sampling run returns.
C9_SamplingTerminates ==
  /\ [](pc = "sampling" => BigLT(BigFromNat(sampleK), totalPossible))
  /\ (pc = "sampling") ~> (pc = "idle" /\ outcome = "done")

\* C9 witness: a sampling run of three draws has returned
C9_Witness ==
  /\ Completed
  /\ ~enumerates(totalPossible)
  /\ sampleK = 3
  /\ Len(variations) = 3

\* masks probed for a space of n positions: zero, each single bit, all bits
ProbeMasks(n) == {{}} \cup {{b} : b \in 0..(n - 1)} \cup {0..(n - 1)}

\* draws that reduce to m: m itself (the least) and m with one higher bit
Preimages(m, n) == {m} \cup {m \cup {b} : b \in n..(UINT_BITS - 1)}

\* C10 (as claimed): in sampling mode every mask of the space is a possible
\* candidate of sampleUniqueBigInt.
C10_EveryMaskDrawable ==
  pc = "sampling" =>
    \A m \in ProbeMasks(lettersCount) :
      \E r \in Preimages(m, lettersCount) :
        IsRandValue(r) /\ pickOf(r, totalPossible) = m

====
